---- MODULE Spec2Model ----
(***************************************************************************)
(* A model of jellyseerr_mcp.client.JellyseerrClient: the gateway          *)
(* (request, close, the lazily created httpx.AsyncClient) and the          *)
(* resolver (request_media, search_media, get_request), run by asyncio     *)
(* tasks that share one client instance.                                   *)
(*                                                                         *)
(* An asyncio task runs without interruption between two awaits that       *)
(* really suspend.  The code suspends in `await client.request(...)`       *)
(* (client.py:44) and in `await self._client.aclose()` (client.py:30);     *)
(* `await self._get_client()` never suspends.  Each action below is one    *)
(* such uninterrupted stretch of one task.                                 *)
(***************************************************************************)
EXTENDS Integers, Sequences, FiniteSets, TLC

\* ---------------------------------------------------------------- bounds
NumTasks == 2
MaxConns == 2
MaxServices == 2
MaxSeasons == 2
MaxRequested == 2
MaxQueryLen == 3

Tasks == 1..NumTasks

\* ------------------------------------------------- Python values, helpers
\* Optional[T]: None is the empty tuple, a value x is <<x>>.
None == <<>>
Some(x) == <<x>>

Min(S) == CHOOSE x \in S : \A y \in S : x <= y

RECURSIVE SeqsUpTo(_, _)
SeqsUpTo(S, n) ==
    IF n = 0 THEN {<<>>}
    ELSE LET shorter == SeqsUpTo(S, n - 1)
         IN  shorter \cup {Append(s, x) : s \in {q \in shorter : Len(q) = n - 1}, x \in S}

\* [x for x in seq if ...]: the elements of seq at the positions in keep, in seq's order
RECURSIVE KeepUpTo(_, _, _)
KeepUpTo(seq, keep, n) ==
    IF n = 0 THEN <<>>
    ELSE KeepUpTo(seq, keep, n - 1) \o (IF n \in keep THEN <<seq[n]>> ELSE <<>>)
Keep(seq, keep) == KeepUpTo(seq, keep, Len(seq))

\* next((x for x in seq if ...), None): the element of seq at the first position in hits
NextOrNone(seq, hits) == IF hits = {} THEN None ELSE Some(seq[Min(hits)])

Elems(seq) == {seq[i] : i \in 1..Len(seq)}

\* ------------------------------------------------------------------ state
VARIABLES
    client,   \* JellyseerrClient._client: NoConn (None) or the index in conns of the stored AsyncClient
    conns,    \* every httpx.AsyncClient created so far, in creation order: "open" | "closing" | "closed"
    pc,       \* per task: "idle" | "awaiting" (suspended in client.request) | "closing" (suspended in aclose) | "done"
    args,     \* per task: the running operation and its arguments
    frame,    \* per task: the locals of the running invocation
    calls,    \* per task: the downstream calls the running invocation has issued, in order
    result    \* per task: what the invocation returned or raised

vars == <<client, conns, pc, args, frame, calls, result>>

NoConn == 0

\* ------------------------------------------------- results and exceptions
NoResult == [kind |-> "none", exc |-> "", what |-> "", info |-> <<>>]
Returned(v) == [kind |-> "value", exc |-> "", what |-> "", info |-> <<v>>]
Raised(exc, what, info) == [kind |-> "raise", exc |-> exc, what |-> what, info |-> info]

\* ------------------------------------------------------- downstream reply
\* What `await client.request(...)` and the two calls after it can meet:
\*   fail = "transport": httpx.RequestError (DNS, refused, timeout, TLS), cls its class
\*   fail = "other":     any other exception, cls its class
\*   fail = "none":      a response with a status, a body text, a reason phrase and,
\*                       when the body parses as JSON, its value in json
HttpReply(status, text, phrase, json) ==
    [fail |-> "none", cls |-> "", status |-> status, text |-> text, phrase |-> phrase, json |-> json]
FailReply(fail, cls) ==
    [fail |-> fail, cls |-> cls, status |-> 0, text |-> "", phrase |-> "", json |-> None]

\* client.py:45, resp.raise_for_status(): raises for an error status (the replies
\* modelled have a 2xx, 4xx or 5xx status)
IsErrorStatus(status) == status >= 400

\* A request() without raise_for_status(): an error status is not told apart
RequestOutcomeNoStatusCheck(method, url, reply) ==
    IF reply.fail = "transport"
    THEN Raised("RuntimeError", "Jellyseerr connection error", <<method, url, reply.cls>>)
    ELSE IF reply.fail = "other"
    THEN Raised("RuntimeError", "Unexpected error calling Jellyseerr API", <<method, url, reply.cls>>)
    ELSE IF reply.json = None
    THEN Raised("RuntimeError", "Unexpected error calling Jellyseerr API", <<method, url, "JSONDecodeError">>)
    ELSE Returned(reply.json[1])

\* client.py:43-62, what request() returns or raises for a reply
RequestOutcome(method, url, reply) ==
    IF reply.fail = "transport"
    THEN Raised("RuntimeError", "Jellyseerr connection error", <<method, url, reply.cls>>)
    ELSE IF reply.fail = "other"
    THEN Raised("RuntimeError", "Unexpected error calling Jellyseerr API", <<method, url, reply.cls>>)
    ELSE IF IsErrorStatus(reply.status)
    THEN Raised("RuntimeError", "Jellyseerr API error",
                <<method, url, reply.status,
                  IF reply.text # "" THEN reply.text
                  ELSE IF reply.phrase # "" THEN reply.phrase ELSE "Unknown error">>)
    ELSE IF reply.json = None
    THEN Raised("RuntimeError", "Unexpected error calling Jellyseerr API", <<method, url, "JSONDecodeError">>)
    ELSE Returned(reply.json[1])


\* ------------------------------------------------------------ the gateway
\* A _get_client() that creates a client on every call
ClientIsNoneAlways == TRUE

\* client.py:24, `if self._client is None`
ClientIsNone == client = NoConn

\* client.py:23-26, _get_client(): the AsyncClient it returns and the clients that exist after it
GetClientConns == IF ClientIsNone THEN Append(conns, "open") ELSE conns
GetClientRef == IF ClientIsNone THEN Len(conns) + 1 ELSE client

\* The model stops creating clients at MaxConns.
CanGetClient == ~ClientIsNone \/ Len(conns) < MaxConns

\* str.upper() on the method names used here
Upper(method) ==
    CASE method = "get" -> "GET"
      [] method = "post" -> "POST"
      [] method = "patch" -> "PATCH"
      [] OTHER -> method

\* client.py:42, the URL: the base URL, then the endpoint (a path and, for some, an id)
Url(endpoint) == [base |-> "/api/v1", path |-> endpoint.path, id |-> endpoint.id]

\* application/x-www-form-urlencoded of one character, as urllib.parse.quote_plus
\* (client.py:68) and as the transport does for every value of params (client.py:44)
FormEncodeChar(c) ==
    CASE c = " " -> <<"+">>
      [] c = "+" -> <<"%", "2", "B">>
      [] c = "%" -> <<"%", "2", "5">>
      [] c = "&" -> <<"%", "2", "6">>
      [] OTHER -> <<c>>

RECURSIVE FormEncode(_)
FormEncode(str) ==
    IF str = <<>> THEN <<>> ELSE FormEncodeChar(Head(str)) \o FormEncode(Tail(str))

\* client.py:68, quote_plus(query)
QuotePlus(query) == FormEncode(query)

\* client.py:44, client.request(..., params=params): the transport writes each value
\* of params into the URL's query string form-encoded
WireQuery(params) == IF params = None THEN None ELSE Some(FormEncode(params[1]))

\* The downstream's single decoding of a query-string value (unquote_plus)
HexChar(h1, h2) ==
    CASE h1 = "2" /\ h2 = "B" -> "+"
      [] h1 = "2" /\ h2 = "5" -> "%"
      [] h1 = "2" /\ h2 = "6" -> "&"
      [] h1 = "2" /\ h2 = "0" -> " "
      [] OTHER -> "?"

RECURSIVE FormDecode(_)
FormDecode(str) ==
    IF str = <<>> THEN <<>>
    ELSE IF Head(str) = "+" THEN <<" ">> \o FormDecode(Tail(str))
    ELSE IF Head(str) = "%" /\ Len(str) >= 3
         THEN <<HexChar(str[2], str[3])>> \o FormDecode(SubSeq(str, 4, Len(str)))
    ELSE <<Head(str)>> \o FormDecode(Tail(str))

\* client.py:41-44, request() up to its suspension in client.request: the client is
\* obtained (created when none is stored) and the call is issued on it
IssueRequest(t, method, endpoint, params, json, step, details) ==
    /\ CanGetClient
    /\ client' = GetClientRef
    /\ conns' = GetClientConns
    /\ calls' = [calls EXCEPT ![t] = Append(@,
                    [method |-> Upper(method), url |-> Url(endpoint),
                     params |-> params, wire |-> WireQuery(params), json |-> json,
                     conn |-> GetClientRef, connState |-> GetClientConns[GetClientRef]])]
    /\ frame' = [frame EXCEPT ![t] =
                    [conn |-> GetClientRef, step |-> step, details |-> details, reply |-> None]]
    /\ pc' = [pc EXCEPT ![t] = "awaiting"]

\* The invocation ends: it returns or raises res
Finish(t, res) ==
    /\ pc' = [pc EXCEPT ![t] = "done"]
    /\ result' = [result EXCEPT ![t] = res]

NoFrame == [conn |-> NoConn, step |-> "", details |-> None, reply |-> None]
NoArgs == [op |-> "none"]

\* ----------------------------------------------------------- the resolver
\* Python truthiness of an Optional[int] and of an Optional[str]
IntTruthy(o) == o # None /\ o[1] # 0
StrTruthy(o) == o # None /\ o[1] # ""

\* A request_media that does not validate the media type
ValidMediaTypeUnchecked(media_type) == TRUE

\* client.py:95
ValidMediaType(media_type) == media_type \in {"movie", "tv"}

\* client.py:112, [s.get("id") for s in services if s.get("id") is not None]
AvailableIds(services) == [i \in 1..Len(services) |-> services[i].id]

\* client.py:121, [s.get("slug") for s in services if s.get("slug")]
ValidSlugs(services) ==
    LET named == Keep(services, {i \in 1..Len(services) : services[i].slug # ""})
    IN  [i \in 1..Len(named) |-> named[i].slug]

\* The positions of the services with a slug, with an id
WithSlug(services, slug) == {i \in 1..Len(services) : services[i].slug = slug}
WithId(services, id) == {i \in 1..Len(services) : services[i].id = id}

Found(s) == [ok |-> TRUE, service |-> s, error |-> NoResult]
NotFound(err) == [ok |-> FALSE, service |-> None, error |-> err]

\* client.py:108, `if server_id:`
ServerIdGiven(a) == IntTruthy(a.server_id)

\* client.py:117, `elif service_slug:`
ServiceSlugGiven(a) == StrTruthy(a.service_slug)

\* client.py:129-131
PreferredSlug(media_type, is_4k) ==
    CASE media_type = "movie" /\ ~is_4k -> "radarr"
      [] media_type = "movie" /\ is_4k -> "radarr_4k"
      [] media_type # "movie" /\ ~is_4k -> "sonarr"
      [] OTHER -> "sonarr_4k"

\* client.py:138
FallbackSlug(media_type) == IF media_type = "movie" THEN "radarr" ELSE "sonarr"

\* An auto-selection without the retry on the non-4K slug
AutoSelectNoFallback(services, media_type, is_4k) ==
    LET preferred == NextOrNone(services, WithSlug(services, PreferredSlug(media_type, is_4k)))
    IN  IF preferred = None THEN services[1] ELSE preferred[1]

\* client.py:127-143
AutoSelect(services, media_type, is_4k) ==
    LET preferred == NextOrNone(services, WithSlug(services, PreferredSlug(media_type, is_4k)))
        fallback == IF preferred = None /\ is_4k
                    THEN NextOrNone(services, WithSlug(services, FallbackSlug(media_type)))
                    ELSE preferred
    IN  IF fallback = None THEN services[1] ELSE fallback[1]

\* client.py:106-143; services is not empty
SelectService(services, a) ==
    IF ServerIdGiven(a)
    THEN LET hit == NextOrNone(services, WithId(services, a.server_id[1]))
         IN  IF hit = None
             THEN NotFound(Raised("ValueError", "Server ID not found",
                                  <<a.server_id[1], AvailableIds(services)>>))
             ELSE Found(hit[1])
    ELSE IF ServiceSlugGiven(a)
    THEN LET hit == NextOrNone(services, WithSlug(services, a.service_slug[1]))
         IN  IF hit = None
             THEN NotFound(Raised("ValueError", "Service slug not found",
                                  <<a.service_slug[1], ValidSlugs(services)>>))
             ELSE Found(hit[1])
    ELSE Found(AutoSelect(services, a.media_type, a.is_4k))

\* client.py:157-158
AvailableSeasonNumbers(details) ==
    LET numbered == Keep(details.seasons,
                         {i \in 1..Len(details.seasons) : details.seasons[i].seasonNumber # None})
    IN  [i \in 1..Len(numbered) |-> numbered[i].seasonNumber[1]]

\* client.py:161
InvalidSeasons(seasons, details) ==
    Keep(seasons, {i \in 1..Len(seasons) : seasons[i] \notin Elems(AvailableSeasonNumbers(details))})

\* Season objects collected in the order the caller asked for them
RECURSIVE PayloadSeasonsCallerOrder(_, _)
PayloadSeasonsCallerOrder(seasons, details) ==
    IF seasons = <<>> THEN <<>>
    ELSE Keep(details.seasons,
              {i \in 1..Len(details.seasons) : details.seasons[i].seasonNumber = Some(Head(seasons))})
         \o PayloadSeasonsCallerOrder(Tail(seasons), details)

\* client.py:169-172
PayloadSeasons(seasons, details) ==
    Keep(details.seasons,
         {i \in 1..Len(details.seasons) :
             /\ details.seasons[i].seasonNumber # None
             /\ details.seasons[i].seasonNumber[1] \in Elems(seasons)})

\* client.py:154-155, whether the seasons are validated and put into the payload
SeasonsApply(a) == a.media_type = "tv" /\ a.seasons # None

\* A payload that takes its serverId from the caller when the caller names one
BasePayloadCallerId(a, details, service) ==
    [mediaId |-> details.id, mediaType |-> a.media_type, is4k |-> a.is_4k,
     serverId |-> IF a.server_id # None THEN a.server_id[1] ELSE service.id, seasons |-> None]

\* client.py:146-151
BasePayload(a, details, service) ==
    [mediaId |-> details.id, mediaType |-> a.media_type, is4k |-> a.is_4k,
     serverId |-> service.id, seasons |-> None]

Resolved(p) == [ok |-> TRUE, payload |-> Some(p), error |-> NoResult]
Rejected(err) == [ok |-> FALSE, payload |-> None, error |-> err]

\* client.py:101-173, from the media details to the payload or the ValueError
Resolve(a, details) ==
    IF details.services = <<>>
    THEN Rejected(Raised("ValueError", "No services available", <<a.media_id, a.media_type>>))
    ELSE LET sel == SelectService(details.services, a)
         IN  IF ~sel.ok THEN Rejected(sel.error)
             ELSE IF ~SeasonsApply(a) THEN Resolved(BasePayload(a, details, sel.service))
             ELSE IF InvalidSeasons(a.seasons[1], details) # <<>>
             THEN Rejected(Raised("ValueError", "Invalid season numbers",
                                  <<InvalidSeasons(a.seasons[1], details),
                                    AvailableSeasonNumbers(details)>>))
             ELSE Resolved([BasePayload(a, details, sel.service) EXCEPT
                               !.seasons = Some(PayloadSeasons(a.seasons[1], details))])

\* ------------------------------------------------------------- operations
Init ==
    /\ client = NoConn
    /\ conns = <<>>
    /\ pc = [t \in Tasks |-> "idle"]
    /\ args = [t \in Tasks |-> NoArgs]
    /\ frame = [t \in Tasks |-> NoFrame]
    /\ calls = [t \in Tasks |-> <<>>]
    /\ result = [t \in Tasks |-> NoResult]

\* client.py:71-99, request_media(a) for some a of A, up to its first suspension
RequestMediaCall(t, A) ==
    /\ pc[t] = "idle"
    /\ \E a \in A :
        /\ args' = [args EXCEPT ![t] = a]
        /\ IF ~ValidMediaType(a.media_type)
           THEN /\ Finish(t, Raised("ValueError", "Invalid media_type", <<a.media_type>>))
                /\ UNCHANGED <<client, conns, frame, calls>>
           ELSE /\ IssueRequest(t, "GET", [path |-> a.media_type, id |-> Some(a.media_id)],
                                None, None, "details", None)
                /\ UNCHANGED result

\* client.py:99-175, the media details call ends with some reply of R: request_media
\* raises, or resolves the service and the seasons and issues the create call
DetailsReply(t, R) ==
    /\ pc[t] = "awaiting"
    /\ frame[t].step = "details"
    /\ \E reply \in R :
        LET out == RequestOutcome("GET", calls[t][1].url, reply)
        IN  IF out.kind = "raise"
            THEN /\ Finish(t, out)
                 /\ frame' = [frame EXCEPT ![t].reply = Some(reply)]
                 /\ UNCHANGED <<client, conns, args, calls>>
            ELSE LET r == Resolve(args[t], out.info[1])
                 IN  IF ~r.ok
                     THEN /\ Finish(t, r.error)
                          /\ frame' = [frame EXCEPT ![t].details = Some(out.info[1]),
                                                    ![t].reply = Some(reply)]
                          /\ UNCHANGED <<client, conns, args, calls>>
                     ELSE /\ IssueRequest(t, "POST", [path |-> "request", id |-> None],
                                          None, r.payload, "create", Some(out.info[1]))
                          /\ UNCHANGED <<args, result>>

\* client.py:175, the create call ends with some reply of R
CreateReply(t, R) ==
    /\ pc[t] = "awaiting"
    /\ frame[t].step = "create"
    /\ \E reply \in R :
        /\ Finish(t, RequestOutcome("POST", calls[t][2].url, reply))
        /\ frame' = [frame EXCEPT ![t].reply = Some(reply)]
    /\ UNCHANGED <<client, conns, args, calls>>

\* client.py:177-178, get_request(request_id) up to its suspension
GetRequestCall(t, Ids) ==
    /\ pc[t] = "idle"
    /\ \E request_id \in Ids :
        /\ args' = [args EXCEPT ![t] = [op |-> "get_request", request_id |-> request_id]]
        /\ IssueRequest(t, "GET", [path |-> "request", id |-> Some(request_id)],
                        None, None, "single", None)
    /\ UNCHANGED result

\* client.py:66-69, search_media(query) up to its suspension
SearchMediaCall(t, Queries) ==
    /\ pc[t] = "idle"
    /\ \E query \in Queries :
        /\ args' = [args EXCEPT ![t] = [op |-> "search_media", query |-> query]]
        /\ IssueRequest(t, "GET", [path |-> "search", id |-> None],
                        Some(QuotePlus(query)), None, "single", None)
    /\ UNCHANGED result

\* client.py:44-62, the one call of get_request or search_media ends with some reply of R
SingleReply(t, R) ==
    /\ pc[t] = "awaiting"
    /\ frame[t].step = "single"
    /\ \E reply \in R :
        /\ Finish(t, RequestOutcome(calls[t][1].method, calls[t][1].url, reply))
        /\ frame' = [frame EXCEPT ![t].reply = Some(reply)]
    /\ UNCHANGED <<client, conns, args, calls>>

\* client.py:29, `if self._client is not None`
ClientIsSet == client # NoConn

\* A close() that does not reset self._client
ClientAfterCloseKept == client

\* client.py:31, what close() stores in self._client once aclose() has returned
ClientAfterClose == NoConn

\* client.py:28-30, close() up to its suspension in aclose(), which starts the release;
\* with no client stored it returns at once
CloseCall(t) ==
    /\ pc[t] = "idle"
    /\ args' = [args EXCEPT ![t] = [op |-> "close"]]
    /\ IF ~ClientIsSet
       THEN /\ Finish(t, Returned(None))
            /\ UNCHANGED <<client, conns, frame>>
       ELSE /\ conns' = [conns EXCEPT ![client] = IF @ = "open" THEN "closing" ELSE @]
            /\ frame' = [frame EXCEPT ![t] = [NoFrame EXCEPT !.conn = client, !.step = "aclose"]]
            /\ pc' = [pc EXCEPT ![t] = "closing"]
            /\ UNCHANGED <<client, result>>
    /\ UNCHANGED calls

\* client.py:30-31, aclose() returns: the client is released and self._client is reset
CloseDone(t) ==
    /\ pc[t] = "closing"
    /\ conns' = [conns EXCEPT ![frame[t].conn] = "closed"]
    /\ client' = ClientAfterClose
    /\ Finish(t, Returned(None))
    /\ UNCHANGED <<args, frame, calls>>

\* The caller has the result; the task is free for its next operation
Return(t) ==
    /\ pc[t] = "done"
    /\ pc' = [pc EXCEPT ![t] = "idle"]
    /\ args' = [args EXCEPT ![t] = NoArgs]
    /\ frame' = [frame EXCEPT ![t] = NoFrame]
    /\ calls' = [calls EXCEPT ![t] = <<>>]
    /\ result' = [result EXCEPT ![t] = NoResult]
    /\ UNCHANGED <<client, conns>>

\* ------------------------------------------------- inputs and server answers
\* The records a server answer is made of
ServiceRecs == [id : {0, 1}, slug : {"radarr", "radarr_4k", "sonarr", "sonarr_4k"}]
SeasonRecs ==
    {[seasonNumber |-> Some(0), name |-> "Specials"],
     [seasonNumber |-> Some(1), name |-> "One"],
     [seasonNumber |-> Some(1), name |-> "One, extended"],
     [seasonNumber |-> Some(2), name |-> "Two"],
     [seasonNumber |-> None, name |-> "Unnumbered"]}

MediaDetails(id, services, seasons) == [id |-> id, services |-> services, seasons |-> seasons]
CreatedRequest == [id |-> 77, status |-> "pending"]

OkReply(json) == HttpReply(200, "json", "OK", Some(json))
FailureReplies ==
    {HttpReply(404, "not found", "Not Found", None),
     HttpReply(500, "", "Internal Server Error", None),
     HttpReply(502, "", "", None),
     HttpReply(200, "<html>", "OK", None),
     HttpReply(204, "", "No Content", None),
     FailReply("transport", "ConnectTimeout"),
     FailReply("other", "RuntimeError")}

RequestMediaArgs(media_type, is_4k, seasons, server_id, service_slug) ==
    [op |-> "request_media", media_id |-> 10, media_type |-> media_type, is_4k |-> is_4k,
     seasons |-> seasons, server_id |-> server_id, service_slug |-> service_slug]

\* A plain invocation and its answers, for the tasks that only run beside others
PlainArgs == {RequestMediaArgs("movie", FALSE, None, None, None)}
PlainDetails ==
    {MediaDetails(700, <<[id |-> 7, slug |-> "radarr"]>>, <<>>),
     MediaDetails(800, <<[id |-> 8, slug |-> "radarr"]>>, <<>>)}
PlainDetailsReplies == {OkReply(d) : d \in PlainDetails} \cup {HttpReply(404, "not found", "Not Found", None)}
PlainCreateReplies == {OkReply(CreatedRequest)}
PlainSingleReplies == {OkReply(CreatedRequest), FailReply("transport", "ConnectTimeout")}

\* ------------------------------------------------------- the specifications
\* Spec: every task runs any sequence of get_request, search_media, request_media
\* and close on the shared client.
Next ==
    \E t \in Tasks :
        \/ RequestMediaCall(t, PlainArgs)
        \/ DetailsReply(t, PlainDetailsReplies)
        \/ CreateReply(t, PlainCreateReplies)
        \/ GetRequestCall(t, {7})
        \/ SearchMediaCall(t, {<<"a", " ", "b">>})
        \/ SingleReply(t, PlainSingleReplies)
        \/ CloseCall(t)
        \/ CloseDone(t)
        \/ Return(t)

Spec == Init /\ [][Next]_vars

\* SpecSelect: task 1 runs request_media with every choice of media type, 4K flag,
\* server id and service slug, against every service list the server may answer
\* with; the other tasks run plain invocations beside it, with details of their own.
SelectArgs ==
    {RequestMediaArgs(media_type, is_4k, None, server_id, service_slug) :
        media_type \in {"movie", "tv", "film"}, is_4k \in BOOLEAN,
        server_id \in {None, Some(0), Some(1)},
        service_slug \in {None, Some("sonarr")}}
    \cup
    {RequestMediaArgs("tv", is_4k, Some(seasons), server_id, service_slug) :
        is_4k \in BOOLEAN, seasons \in {<<2, 1>>, <<3>>},
        server_id \in {None, Some(0), Some(1)},
        service_slug \in {None, Some("sonarr")}}
SelectSeasons ==
    <<[seasonNumber |-> Some(1), name |-> "One"], [seasonNumber |-> Some(2), name |-> "Two"]>>
SelectDetailsReplies ==
    {OkReply(MediaDetails(603, services, SelectSeasons)) :
        services \in SeqsUpTo(ServiceRecs, MaxServices)}
    \cup {HttpReply(404, "not found", "Not Found", None)}
SelectCreateReplies == {OkReply(CreatedRequest)}
BesideDetailsReplies == {OkReply(MediaDetails(700, <<[id |-> 7, slug |-> "radarr"]>>, <<>>))}

NextSelect ==
    \E t \in Tasks :
        \/ RequestMediaCall(t, IF t = 1 THEN SelectArgs ELSE PlainArgs)
        \/ DetailsReply(t, IF t = 1 THEN SelectDetailsReplies ELSE BesideDetailsReplies)
        \/ CreateReply(t, IF t = 1 THEN SelectCreateReplies ELSE PlainCreateReplies)
        \/ Return(t)

SpecSelect == Init /\ [][NextSelect]_vars

\* SpecSeasons: one caller runs request_media with every seasons argument against
\* every season list the server may answer with.
SeasonsArgs ==
    {RequestMediaArgs(media_type, FALSE, seasons, server_id, None) :
        media_type \in {"movie", "tv"},
        seasons \in {None} \cup {Some(q) : q \in SeqsUpTo({0, 1, 2}, MaxRequested)},
        server_id \in {None, Some(5)}}
SeasonsDetailsReplies ==
    {OkReply(MediaDetails(603, <<[id |-> 1, slug |-> "sonarr"]>>, seasons)) :
        seasons \in SeqsUpTo(SeasonRecs, MaxSeasons)}

NextSeasons ==
    \E t \in {1} :
        \/ RequestMediaCall(t, SeasonsArgs)
        \/ DetailsReply(t, SeasonsDetailsReplies)
        \/ CreateReply(t, PlainCreateReplies)
        \/ Return(t)

SpecSeasons == Init /\ [][NextSeasons]_vars

\* SpecGateway: every task runs get_request and request_media (plain, with an invalid
\* media type, with an unknown server id, with an unknown season), and the downstream
\* answers each call in every way it can.
GatewayArgs ==
    PlainArgs \cup {RequestMediaArgs("film", FALSE, None, None, None),
                    RequestMediaArgs("movie", FALSE, None, Some(5), None),
                    RequestMediaArgs("tv", FALSE, Some(<<3>>), None, None)}
GatewayDetailsReplies ==
    PlainDetailsReplies \cup {OkReply(MediaDetails(900, <<>>, <<>>))} \cup FailureReplies
GatewayReplies == {OkReply(CreatedRequest)} \cup FailureReplies

NextGateway ==
    \E t \in Tasks :
        \/ RequestMediaCall(t, GatewayArgs)
        \/ DetailsReply(t, GatewayDetailsReplies)
        \/ CreateReply(t, GatewayReplies)
        \/ GetRequestCall(t, {7})
        \/ SingleReply(t, GatewayReplies)
        \/ Return(t)

SpecGateway == Init /\ [][NextGateway]_vars

\* SpecSearch: one caller runs search_media with every query over QueryChars.
QueryChars == {"a", " ", "+", "%", "&"}
Queries == SeqsUpTo(QueryChars, MaxQueryLen)

NextSearch ==
    \E t \in {1} :
        \/ SearchMediaCall(t, Queries)
        \/ SingleReply(t, PlainSingleReplies)
        \/ Return(t)

SpecSearch == Init /\ [][NextSearch]_vars

\* ------------------------------------------------------------- properties
IsRequestMedia(t) == args[t].op = "request_media"
HasDetails(t) == IsRequestMedia(t) /\ frame[t].details # None
DetailsOf(t) == frame[t].details[1]
CreateIssued(t) == IsRequestMedia(t) /\ Len(calls[t]) = 2
PayloadOf(t) == calls[t][2].json[1]
ServiceIds(services) == {services[i].id : i \in 1..Len(services)}
SeasonNumbers(seasons) ==
    {seasons[i].seasonNumber[1] : i \in {j \in 1..Len(seasons) : seasons[j].seasonNumber # None}}

\* C1: every create call of an invocation carries a serverId that is the id of a
\* service in the details that same invocation fetched and, for tv with explicit
\* seasons, only season objects of those details, whatever the inputs, the details
\* and the other invocations running beside it.
C1_PayloadFromOwnDetails ==
    \A t \in Tasks : \A i \in 1..Len(calls[t]) :
        (IsRequestMedia(t) /\ calls[t][i].method = "POST") =>
            /\ HasDetails(t)
            /\ calls[t][i].json # None
            /\ calls[t][i].json[1].serverId \in ServiceIds(DetailsOf(t).services)
            /\ (args[t].media_type = "tv" /\ args[t].seasons # None) =>
                  /\ calls[t][i].json[1].seasons # None
                  /\ \A s \in Elems(calls[t][i].json[1].seasons[1]) :
                        /\ s \in Elems(DetailsOf(t).seasons)
                        /\ s.seasonNumber # None
                        /\ s.seasonNumber[1] \in SeasonNumbers(DetailsOf(t).seasons)

\* Two invocations with different details have both issued their create call, one of
\* them for tv with explicit seasons.
C1_Witness ==
    /\ CreateIssued(1) /\ CreateIssued(2)
    /\ DetailsOf(1) # DetailsOf(2)
    /\ PayloadOf(1).serverId # PayloadOf(2).serverId
    /\ PayloadOf(1).seasons # None
    /\ pc[1] = "awaiting" /\ pc[2] = "awaiting"

\* C2: the calls of one request_media are a prefix of <details GET, create POST>,
\* none repeated: none for an invalid media type; the GET alone when the fetch fails,
\* the service list is empty or a validation fails; the GET then the POST otherwise;
\* and the POST only after the GET has returned the details.
C2_CallsArePrefixOfGetPost ==
    \A t \in Tasks : IsRequestMedia(t) =>
        /\ Len(calls[t]) <= 2
        /\ Len(calls[t]) >= 1 =>
              /\ calls[t][1].method = "GET"
              /\ calls[t][1].url.path = args[t].media_type
              /\ calls[t][1].url.id = Some(args[t].media_id)
        /\ Len(calls[t]) = 2 =>
              /\ calls[t][2].method = "POST"
              /\ calls[t][2].url.path = "request"
              /\ HasDetails(t)
        /\ args[t].media_type \notin {"movie", "tv"} =>
              /\ calls[t] = <<>>
              /\ pc[t] = "done" /\ result[t].exc = "ValueError"
        /\ (args[t].media_type \in {"movie", "tv"} /\ pc[t] = "awaiting" /\ frame[t].step = "details") =>
              Len(calls[t]) = 1
        /\ (args[t].media_type \in {"movie", "tv"} /\ pc[t] = "done") =>
              IF \/ ~HasDetails(t)
                 \/ DetailsOf(t).services = <<>>
                 \/ result[t].exc = "ValueError"
              THEN Len(calls[t]) = 1
              ELSE Len(calls[t]) = 2

\* An invocation has ended with both calls made, another with the GET alone after a
\* failed validation.
C2_Witness ==
    /\ IsRequestMedia(1) /\ pc[1] = "done" /\ result[1].exc = "ValueError" /\ Len(calls[1]) = 1
    /\ IsRequestMedia(2) /\ pc[2] = "done" /\ result[2].kind = "value" /\ Len(calls[2]) = 2

\* C3: with a non-empty service list and a serverId given (any integer, not null):
\* when a service has that id the payload's serverId is the given one, whatever is4k
\* and serviceSlug are; when none has, the call fails with a ValueError that lists
\* all service ids and no create call is issued.
C3_ServerIdDecides ==
    \A t \in Tasks :
        (HasDetails(t) /\ DetailsOf(t).services # <<>> /\ args[t].server_id # None) =>
            IF args[t].server_id[1] \in ServiceIds(DetailsOf(t).services)
            THEN /\ ~(pc[t] = "done" /\ result[t].what \in {"Server ID not found", "Service slug not found"})
                 /\ CreateIssued(t) => PayloadOf(t).serverId = args[t].server_id[1]
            ELSE /\ pc[t] = "done"
                 /\ result[t].exc = "ValueError"
                 /\ result[t].what = "Server ID not found"
                 /\ result[t].info[2] =
                       [i \in 1..Len(DetailsOf(t).services) |-> DetailsOf(t).services[i].id]
                 /\ Len(calls[t]) = 1

\* C4: with neither serverId nor serviceSlug given and a non-empty service list, the
\* service selected is the first with the preferred slug, else (only when is4k) the
\* first with the non-4K slug, else the first of the list; the selection never fails.
C4_Preferred(t) ==
    CASE args[t].media_type = "movie" /\ args[t].is_4k -> "radarr_4k"
      [] args[t].media_type = "movie" /\ ~args[t].is_4k -> "radarr"
      [] args[t].media_type = "tv" /\ args[t].is_4k -> "sonarr_4k"
      [] OTHER -> "sonarr"
C4_NonFourK(t) == IF args[t].media_type = "movie" THEN "radarr" ELSE "sonarr"
C4_Expected(t) ==
    LET services == DetailsOf(t).services
        pref == {i \in 1..Len(services) : services[i].slug = C4_Preferred(t)}
        base == {i \in 1..Len(services) : services[i].slug = C4_NonFourK(t)}
    IN  IF pref # {} THEN services[Min(pref)]
        ELSE IF args[t].is_4k /\ base # {} THEN services[Min(base)]
        ELSE services[1]
C4_AutoSelection ==
    \A t \in Tasks :
        (HasDetails(t) /\ DetailsOf(t).services # <<>>
            /\ args[t].server_id = None /\ args[t].service_slug = None) =>
            /\ ~(pc[t] = "done" /\ result[t].what \in
                    {"No services available", "Server ID not found", "Service slug not found"})
            /\ (args[t].seasons = None \/ args[t].media_type = "movie") => CreateIssued(t)
            /\ CreateIssued(t) =>
                  /\ PayloadOf(t).serverId = C4_Expected(t).id
                  /\ ~args[t].is_4k =>
                        \/ PayloadOf(t).serverId = DetailsOf(t).services[1].id
                        \/ \E s \in Elems(DetailsOf(t).services) :
                              s.slug = C4_NonFourK(t) /\ s.id = PayloadOf(t).serverId

\* The 4K service is missing and the non-4K service, second in the list, is selected.
C4_Witness ==
    /\ CreateIssued(1)
    /\ args[1].server_id = None /\ args[1].service_slug = None
    /\ args[1].media_type = "tv" /\ args[1].is_4k
    /\ Len(DetailsOf(1).services) = 2
    /\ DetailsOf(1).services[1].slug = "radarr_4k"
    /\ DetailsOf(1).services[2].slug = "sonarr"
    /\ DetailsOf(1).services[1].id # DetailsOf(1).services[2].id
    /\ PayloadOf(1).serverId = DetailsOf(1).services[2].id

\* C5 as stated: for tv with an explicit seasons list, when a requested number is
\* absent from the details' season numbers the call fails with a ValueError naming
\* exactly the absent numbers and the available ones and issues no create call;
\* otherwise the payload's seasons are the details' season objects whose number was
\* requested, in the server's order.  With seasons null, or for a movie, the payload
\* has no seasons.
C5_Requested(t) == Elems(args[t].seasons[1])
C5_Absent(t) == C5_Requested(t) \ SeasonNumbers(DetailsOf(t).seasons)
C5_Wanted(seasons, requested) ==
    {i \in 1..Len(seasons) :
        seasons[i].seasonNumber # None /\ seasons[i].seasonNumber[1] \in requested}
C5_IsSubsequenceOfRequested(sent, seasons, requested) ==
    /\ Len(sent) = Cardinality(C5_Wanted(seasons, requested))
    /\ \A k \in 1..Len(sent) :
          \E i \in C5_Wanted(seasons, requested) :
              /\ Cardinality({j \in C5_Wanted(seasons, requested) : j < i}) = k - 1
              /\ sent[k] = seasons[i]
C5_Decided(t) ==
    IF args[t].media_type = "tv" /\ args[t].seasons # None
    THEN IF C5_Absent(t) # {}
         THEN /\ pc[t] = "done"
              /\ result[t].exc = "ValueError"
              /\ result[t].what = "Invalid season numbers"
              /\ Elems(result[t].info[1]) = C5_Absent(t)
              /\ Elems(result[t].info[2]) = SeasonNumbers(DetailsOf(t).seasons)
              /\ Len(calls[t]) = 1
         ELSE /\ CreateIssued(t)
              /\ PayloadOf(t).seasons # None
              /\ C5_IsSubsequenceOfRequested(PayloadOf(t).seasons[1], DetailsOf(t).seasons,
                                             C5_Requested(t))
    ELSE CreateIssued(t) => PayloadOf(t).seasons = None
C5_SeasonsDecide ==
    \A t \in Tasks : HasDetails(t) => C5_Decided(t)

\* C5, amended: the same, for the invocations whose service selection succeeded
\* (the service list is not empty and the serverId or serviceSlug given, if any,
\* names one of its services).
C5_ServiceSelected(t) ==
    ~(pc[t] = "done" /\ result[t].what \in
         {"No services available", "Server ID not found", "Service slug not found"})
C5_SeasonsDecideOnceSelected ==
    \A t \in Tasks : (HasDetails(t) /\ C5_ServiceSelected(t)) => C5_Decided(t)

\* Seasons asked as 2, 1 and sent as One, Two, the server's order.
C5_Witness ==
    /\ CreateIssued(1)
    /\ args[1].seasons = Some(<<2, 1>>)
    /\ DetailsOf(1).seasons = <<[seasonNumber |-> Some(1), name |-> "One"],
                                [seasonNumber |-> Some(2), name |-> "Two"]>>
    /\ PayloadOf(1).seasons = Some(DetailsOf(1).seasons)

\* C6: request() gives every outcome of the downstream call exactly one result and
\* swallows no failure: the parsed value for a success status with a parsable body;
\* "Jellyseerr API error" with the status and the body text (the reason phrase when
\* the body is empty) for a status >= 400; "Jellyseerr connection error" for a
\* transport failure; "Unexpected error" for anything else.  The three can be told
\* apart, and from the resolver's ValueError; a gateway failure inside request_media
\* reaches the caller as it is.
C6_Class(reply) ==
    IF reply.fail = "transport" THEN "connection"
    ELSE IF reply.fail = "other" THEN "unexpected"
    ELSE IF reply.status >= 400 THEN "api"
    ELSE IF reply.json = None THEN "unexpected"
    ELSE "value"
C6_Ended(t) == pc[t] = "done" /\ args[t].op \in {"request_media", "get_request", "search_media"}
C6_Kind(t) ==
    IF frame[t].reply = None THEN "invalid"
    ELSE IF C6_Class(frame[t].reply[1]) = "value" /\ frame[t].step = "details" THEN "invalid"
    ELSE C6_Class(frame[t].reply[1])
C6_Mapped(t) ==
    LET reply == frame[t].reply[1]
        r == result[t]
    IN  CASE C6_Kind(t) = "api" ->
                /\ r.kind = "raise" /\ r.exc = "RuntimeError" /\ r.what = "Jellyseerr API error"
                /\ r.info[3] = reply.status
                /\ reply.text # "" => r.info[4] = reply.text
                /\ (reply.text = "" /\ reply.phrase # "") => r.info[4] = reply.phrase
          [] C6_Kind(t) = "connection" ->
                /\ r.kind = "raise" /\ r.exc = "RuntimeError"
                /\ r.what = "Jellyseerr connection error"
                /\ r.info[3] = reply.cls
          [] C6_Kind(t) = "unexpected" ->
                /\ r.kind = "raise" /\ r.exc = "RuntimeError"
                /\ r.what = "Unexpected error calling Jellyseerr API"
          [] C6_Kind(t) = "value" ->
                r = Returned(reply.json[1])
          [] OTHER ->
                r.kind = "raise" /\ r.exc = "ValueError"
C6_OutcomeMapping ==
    /\ \A t \in Tasks : C6_Ended(t) => C6_Mapped(t)
    /\ \A t, u \in Tasks :
          (C6_Ended(t) /\ C6_Ended(u) /\ C6_Kind(t) # C6_Kind(u)) =>
              <<result[t].kind, result[t].exc, result[t].what>>
                  # <<result[u].kind, result[u].exc, result[u].what>>

\* A 404 on the details call of request_media has reached the caller, with its
\* status and body text, beside a call that failed in the transport.
C6_Witness ==
    /\ C6_Ended(1) /\ IsRequestMedia(1) /\ Len(calls[1]) = 1
    /\ result[1].what = "Jellyseerr API error"
    /\ result[1].info[3] = 404 /\ result[1].info[4] = "not found"
    /\ C6_Ended(2) /\ result[2].what = "Jellyseerr connection error"

\* C7 as stated: over the lifetime of the client, whatever the calls and their
\* interleaving, the connection object is created at most once.
C7_CreatedAtMostOnce == Len(conns) <= 1

\* C7, amended: a connection is created only by a call that finds none stored (the
\* first call, and the first call after a close() has completed), one at a time;
\* none exists before the first call, and every call is issued on the stored
\* connection, the one just created or the one already there.
C7_Step ==
    /\ Len(conns') \in {Len(conns), Len(conns) + 1}
    /\ Len(conns') > Len(conns) =>
          /\ client = NoConn
          /\ client' = Len(conns')
          /\ conns'[client'] = "open"
          /\ \E t \in Tasks : Len(calls'[t]) = Len(calls[t]) + 1
    /\ \A t \in Tasks :
          Len(calls'[t]) > Len(calls[t]) =>
              /\ calls'[t][Len(calls'[t])].conn = client'
              /\ frame'[t].conn = client'
              /\ client # NoConn => (client' = client /\ conns' = conns)
C7_CreatedOnlyWhenNoneStored == [][C7_Step]_vars

\* The second connection, created after a close(), is shared by two running calls.
C7_Witness ==
    /\ Len(conns) = 2 /\ conns[1] = "closed" /\ client = 2
    /\ pc[1] = "awaiting" /\ frame[1].conn = 2
    /\ pc[2] = "awaiting" /\ frame[2].conn = 2

\* C8: close() never fails; with no connection stored it changes nothing; when it
\* completes the client stores no connection, so that a close() after it finds
\* nothing to do.
C8_Step ==
    \A t \in Tasks :
        /\ (pc[t] = "idle" /\ args'[t].op = "close") =>
              IF client = NoConn
              THEN /\ pc'[t] = "done"
                   /\ result'[t] = Returned(None)
                   /\ client' = client /\ conns' = conns
              ELSE pc'[t] = "closing"
        /\ (pc[t] = "closing" /\ pc'[t] # "closing") =>
              /\ pc'[t] = "done"
              /\ result'[t] = Returned(None)
              /\ client' = NoConn
              /\ conns'[frame[t].conn] = "closed"
C8_CloseIsSafeAndIdempotent == [][C8_Step]_vars

\* A close() has found nothing stored after an earlier close() released the
\* connection.
C8_Witness ==
    \E t \in Tasks :
        /\ args[t].op = "close" /\ pc[t] = "done" /\ frame[t].step = ""
        /\ result[t] = Returned(None)
        /\ Len(conns) = 1 /\ conns[1] = "closed" /\ client = NoConn

\* C9: decoding once the query the search call transmits gives the caller's query.
C9_DecodesToQuery ==
    \A t \in Tasks :
        (args[t].op = "search_media" /\ Len(calls[t]) = 1) =>
            /\ calls[t][1].wire # None
            /\ FormDecode(calls[t][1].wire[1]) = args[t].query

\* C10: no call is ever issued on a connection whose release has begun or completed:
\* a request() that starts while a close() is suspended in aclose() does not obtain
\* the connection under release.
C10_NoCallOnReleasedConnection ==
    \A t \in Tasks : \A i \in 1..Len(calls[t]) : calls[t][i].connState = "open"
====
